---- MODULE Spec2Model ----
(***************************************************************************)
(* Verification model of the two tutorial notebooks                       *)
(*   Exercises_Plehns_lecture/generative-transformer.ipynb                *)
(*   Exercises_Plehns_lecture/bayesian-regression.ipynb                   *)
(*                                                                         *)
(* Tensors are records [shape, data]: the shape is computed by every      *)
(* operation the way torch computes it, the data is a function over the   *)
(* index tuples the shape spans.  Exceptions are the value Raised(kind).  *)
(* Bodies the notebooks leave as exercises are modelled from the          *)
(* instructions the notebooks give for them.                              *)
(***************************************************************************)
EXTENDS Integers, Sequences, FiniteSets, TLC

VARIABLES
    gpt_self,   \* the JetGPT instance jet_gpt (what __init__ stored)
    gpt_impl,   \* the exercises of JetGPT that have been filled in
    gpt_data,   \* train_data_normalized, the tensor the dataloader draws from
    gpt_epoch,  \* training loop: epochs completed
    gpt_batch,  \* training loop: batches of the current epoch completed
    gpt_x,      \* training loop: the batch x of the last log_prob call
    gpt_ret,    \* training loop: what the last jet_gpt.log_prob(x) returned or raised
    gpt_calls,  \* the methods the last log_prob call entered, in order
    gpt_losses, \* training loop: epoch_losses
    gpt_steps,  \* optimizer.step() calls so far (the version of the weights)
    gpt_status, \* "idle", "training", "trained", or "raised"
    head_gaussians, \* the argument gaussians JetGPT was constructed with
    head_params,   \* the output of the final MLP for one position, in numbers
    head_dist,      \* what gaussian_mixture_model(gmm_params) returned (None before)
    vb_tlr0,    \* test cell: the layer tlr0
    vb_tlr1,    \* test cell: the layer tlr1
    vb_x,       \* test cell: the test data x
    vb_output,  \* test cell: output = tlr1(tlr0(x))  (None before)
    vb_i,       \* test cell: passes of the stochasticity loop made
    vb_last,    \* what the last call tlr0(x) returned
    vb_calls,   \* calls of tlr0 so far
    vb_drew,    \* whether the last call of tlr0 drew new noise
    vb_kl,      \* what tlr0.KL() returned (None before)
    vb_pc,      \* "idle", "test", "loop" or "done"
    bnn_model,    \* train_epoch: the bayes_amp_net
    bnn_data,     \* train_epoch: the batches (X, y) of the dataloader
    bnn_batch,    \* train_epoch: batches done
    bnn_loss_tot, \* train_epoch: loss_tot
    bnn_hist,     \* per batch: the prediction, the two loss terms and the loss
    bnn_ret,      \* what train_epoch returned (None before)
    bnn_pc,       \* "idle", "loop", "done" or "raised"
    toy_batch,  \* generate_data: its argument batch_size
    toy_rand,   \* generate_data: the tensor torch.randint is about to return
    toy_x,      \* generate_data: the tensor x it returned (None before the call)
    toy_y,      \* generate_data: the label tensor it returned
    gen_n,      \* generation cell: the argument n_samples of jet_gpt.sample
    gen_calls,  \* generation cell: the calls jet_gpt.sample made, in order
    gen_sample, \* generation cell: what jet_gpt.sample returned or raised (None before)
    gen_pp,     \* generation cell: sample_pp, or what the line raised (None before)
    pp_kind,    \* preprocessing: "idle", "reduced" (features given) or "event" (momenta given)
    pp_in,      \* preprocessing: the array the round trip starts from
    pp_mid,     \* preprocessing: what the first of the two functions returned (None before)
    pp_out,     \* preprocessing: what the second returned on it (None before)
    amp_dat,    \* amplitude data: the arrays trn_dat, val_dat, tst_dat as loaded
    amp_nev,    \* amplitude preprocessing: nev (0 before)
    amp_datf,   \* amplitude preprocessing: trn_datf, val_datf, tst_datf (None while unassigned)
    amp_pc      \* amplitude preprocessing: "idle", "loaded", "done" or "raised"

toyVars == <<toy_batch, toy_rand, toy_x, toy_y>>
gptVars == <<gpt_self, gpt_impl, gpt_data, gpt_epoch, gpt_batch, gpt_x, gpt_ret, gpt_calls,
             gpt_losses, gpt_steps, gpt_status>>
gmmVars == <<head_gaussians, head_params, head_dist>>
vbVars == <<vb_tlr0, vb_tlr1, vb_x, vb_output, vb_i, vb_last, vb_calls, vb_drew,
            vb_kl, vb_pc>>
bnnVars == <<bnn_model, bnn_data, bnn_batch, bnn_loss_tot, bnn_hist, bnn_ret, bnn_pc>>
genVars == <<gen_n, gen_calls, gen_sample, gen_pp>>
ppVars == <<pp_kind, pp_in, pp_mid, pp_out>>
ampVars == <<amp_dat, amp_nev, amp_datf, amp_pc>>
vars == <<toyVars, gptVars, gmmVars, vbVars, bnnVars, genVars, ppVars, ampVars>>

None == [none |-> TRUE]

\* a raised exception, as a value
Raise(kind) == [exc |-> kind]
IsRaised(v) == "exc" \in DOMAIN v

\* the state of a notebook whose cells are not being run
ToyIdle ==
    /\ toy_batch = 0
    /\ toy_rand = None
    /\ toy_x = None
    /\ toy_y = None

VbIdle ==
    /\ vb_tlr0 = None
    /\ vb_tlr1 = None
    /\ vb_x = None
    /\ vb_output = None
    /\ vb_i = 0
    /\ vb_last = None
    /\ vb_calls = 0
    /\ vb_drew = FALSE
    /\ vb_kl = None
    /\ vb_pc = "idle"

BnnIdle ==
    /\ bnn_model = None
    /\ bnn_data = None
    /\ bnn_batch = 0
    /\ bnn_loss_tot = None
    /\ bnn_hist = <<>>
    /\ bnn_ret = None
    /\ bnn_pc = "idle"

GmmIdle ==
    /\ head_gaussians = 0
    /\ head_params = None
    /\ head_dist = None

AmpIdle ==
    /\ amp_dat = None
    /\ amp_nev = 0
    /\ amp_datf = None
    /\ amp_pc = "idle"

PpIdle ==
    /\ pp_kind = "idle"
    /\ pp_in = None
    /\ pp_mid = None
    /\ pp_out = None

GenIdle ==
    /\ gen_n = 0
    /\ gen_calls = <<>>
    /\ gen_sample = None
    /\ gen_pp = None

GptIdle ==
    /\ gpt_self = None
    /\ gpt_impl = {}
    /\ gpt_data = None
    /\ gpt_epoch = 0
    /\ gpt_batch = 0
    /\ gpt_x = None
    /\ gpt_ret = None
    /\ gpt_calls = <<>>
    /\ gpt_losses = <<>>
    /\ gpt_steps = 0
    /\ gpt_status = "idle"

(***************************************************************************)
(* generative-transformer.ipynb, Exercise 1: generate_data                *)
(***************************************************************************)
\* Largest batch_size handed to generate_data.
MaxBatch == 1
\* Number of columns of x (the notebook draws 10; the width is bounded here).
RowLen == 2
\* torch.randint(0, 10, ...): low is inclusive, high exclusive.
RandLow == 0
RandHigh == 10

\* torch.randint(low, high, size=(n, m)): every tensor it can return.
Randint(low, high, n, m) ==
    { [shape |-> <<n, m>>, data |-> d] : d \in [1..n -> [1..m -> low..(high - 1)]] }

RECURSIVE CountFrom(_, _, _)
\* number of positions >= k of row that hold v
CountFrom(row, v, k) ==
    IF k > Len(row) THEN 0
    ELSE (IF row[k] = v THEN 1 ELSE 0) + CountFrom(row, v, k + 1)

\* torch.count_nonzero(x == v, dim=-1): one count per row, shape (n,)
CountNonzeroEq(x, v) ==
    [shape |-> <<x.shape[1]>>,
     data  |-> [r \in 1..x.shape[1] |-> CountFrom(x.data[r], v, 1)]]

\* a mutation of Greater: ties count as "more"
GreaterOrEqual(a, b) ==
    [shape |-> a.shape, data |-> [r \in 1..a.shape[1] |-> a.data[r] >= b.data[r]]]

\* count_4 > count_2, elementwise on two tensors of shape (n,)
Greater(a, b) ==
    [shape |-> a.shape, data |-> [r \in 1..a.shape[1] |-> a.data[r] > b.data[r]]]

\* t.reshape(-1, 1).float() on a boolean tensor of shape (n,)
ReshapeColFloat(t) ==
    [shape |-> <<t.shape[1], 1>>,
     data  |-> [r \in 1..t.shape[1] |-> <<IF t.data[r] THEN 1 ELSE 0>>]]

\* generate_data(batch_size) for the draw x of torch.randint
GenerateDataOf(x) ==
    LET count_2 == CountNonzeroEq(x, 2)
        count_4 == CountNonzeroEq(x, 4)
    IN  <<x, ReshapeColFloat(Greater(count_4, count_2))>>

GenerateData ==
    /\ toy_x = None
    /\ toy_x' = GenerateDataOf(toy_rand)[1]
    /\ toy_y' = GenerateDataOf(toy_rand)[2]
    /\ UNCHANGED <<toy_batch, toy_rand>>
    /\ UNCHANGED <<gptVars, gmmVars, vbVars, bnnVars, genVars, ppVars, ampVars>>

ToyInit ==
    /\ toy_batch \in 0..MaxBatch
    /\ toy_rand \in Randint(RandLow, RandHigh, toy_batch, RowLen)
    /\ toy_x = None
    /\ toy_y = None
    /\ GptIdle
    /\ GmmIdle
    /\ VbIdle
    /\ BnnIdle
    /\ GenIdle
    /\ PpIdle
    /\ AmpIdle

ToyNext == GenerateData

SpecToy == ToyInit /\ [][ToyNext]_vars

\* the 4s and the 2s of row r of x, counted independently of the code
Fours(x, r) == Cardinality({c \in 1..x.shape[2] : x.data[r][c] = 4})
Twos(x, r)  == Cardinality({c \in 1..x.shape[2] : x.data[r][c] = 2})

\* C8: generate_data returns x of shape (batch_size, width) with entries in
\* 0..9, and labels of shape (batch_size, 1) that are 1.0 exactly for the rows
\* holding strictly more 4s than 2s (0.0 on ties and on rows with neither).
C8_GenerateDataLabels ==
    toy_x # None =>
        /\ toy_x.shape = <<toy_batch, RowLen>>
        /\ toy_y.shape = <<toy_batch, 1>>
        /\ \A r \in 1..toy_x.shape[1] :
              /\ \A c \in 1..RowLen : toy_x.data[r][c] \in 0..9
              /\ toy_y.data[r] = <<IF Fours(toy_x, r) > Twos(toy_x, r) THEN 1 ELSE 0>>

\* a row with as many 4s as 2s (and at least one of each) was labelled
C8_Witness_Tie ==
    /\ toy_x # None
    /\ \E r \in 1..toy_x.shape[1] :
          /\ Fours(toy_x, r) = Twos(toy_x, r)
          /\ Fours(toy_x, r) > 0
          /\ toy_y.data[r] = <<0>>

(***************************************************************************)
(* generative-transformer.ipynb: class JetGPT                              *)
(*                                                                         *)
(* What the trained layers compute is left uninterpreted: the output of a *)
(* layer is a term naming the layer, the version of the weights and the   *)
(* argument, so a tensor entry shows exactly the inputs it was computed   *)
(* from.  A vector is [sym, width] (uninterpreted, of known width) or     *)
(* [num] (a sequence of numbers).                                         *)
(***************************************************************************)
\* Largest number of events in the training data.
MaxEvents == 1
\* The arguments of the cell that constructs jet_gpt, the batch size of
\* train_dataloader and the epochs of the training loop.
DataDim == 4
Gaussians == 10
BatchSize == 1024
EmbeddingDim == 64
TransformerLayers == 4
MlpLayers == 3
MlpHiddenDim == 64
Epochs == 5
\* Feature values of the normalized training data.
FeatVals == {0, 1}

Exercises234 == {"embedding", "attention_mask", "gaussian_mixture_model"}

\* a method's outcome: its value (or the exception) and the calls it made
Ret(v, calls) == [val |-> v, calls |-> calls]
\* a call of method fn; arg is the shape of its tensor argument (or its size)
Call(fn, arg) == [fn |-> fn, arg |-> arg]

\* nn.Linear(in_features, out_features), as __init__ builds it
NNLinear(name, in_features, out_features) ==
    [kind |-> "Linear", name |-> name, in |-> in_features, out |-> out_features]
NNReLU == [kind |-> "ReLU", name |-> <<"relu", 0>>, in |-> 0, out |-> 0]

\* the list `layers` of the final MLP, as the loop of __init__ appends to it
MlpOf(embedding_dim, mlp_layers, mlp_hidden_dim, out_dim) ==
    [k \in 1..(2 * (mlp_layers - 1) + 1) |->
        IF k = 2 * (mlp_layers - 1) + 1
        THEN NNLinear(<<"mlp", k>>, IF mlp_layers = 1 THEN embedding_dim ELSE mlp_hidden_dim, out_dim)
        ELSE IF k % 2 = 1
        THEN NNLinear(<<"mlp", k>>, IF k = 1 THEN embedding_dim ELSE mlp_hidden_dim, mlp_hidden_dim)
        ELSE NNReLU]

\* a mutation of JetGPT: the output layer is two numbers per Gaussian wide
JetGPT_TwoPerGaussian(data_dim, embedding_dim, transformer_layers, mlp_layers, mlp_hidden_dim, gaussians) ==
    [data_dim |-> data_dim,
     embedding_layer |-> NNLinear(<<"embedding_layer", 0>>, data_dim + 1, embedding_dim),
     d_model |-> embedding_dim,
     num_layers |-> transformer_layers,
     mlp |-> MlpOf(embedding_dim, mlp_layers, mlp_hidden_dim, gaussians * 2)]

\* JetGPT.__init__: what the instance holds
JetGPT(data_dim, embedding_dim, transformer_layers, mlp_layers, mlp_hidden_dim, gaussians) ==
    [data_dim |-> data_dim,
     embedding_layer |-> NNLinear(<<"embedding_layer", 0>>, data_dim + 1, embedding_dim),
     d_model |-> embedding_dim,
     num_layers |-> transformer_layers,
     mlp |-> MlpOf(embedding_dim, mlp_layers, mlp_hidden_dim, gaussians * 3)]

\* torch.eye(d)[p]: row p (from 1) of the identity
OneHot(p, d) == [k \in 1..d |-> IF k = p THEN 1 ELSE 0]

\* a layer applied along the last dimension of t, shape (n, len, width);
\* ver is the version of the weights
ApplyLayer(layer, ver, t) ==
    IF layer.kind = "ReLU"
    THEN [shape |-> t.shape,
          data  |-> [r \in 1..t.shape[1] |-> [p \in 1..t.shape[2] |->
                        [sym |-> [op |-> "relu", arg |-> t.data[r][p]],
                         width |-> t.shape[3]]]]]
    ELSE IF t.shape[3] # layer.in
    THEN Raise("RuntimeError")
    ELSE [shape |-> <<t.shape[1], t.shape[2], layer.out>>,
          data  |-> [r \in 1..t.shape[1] |-> [p \in 1..t.shape[2] |->
                        [sym |-> [op |-> layer.name, ver |-> ver, arg |-> t.data[r][p]],
                         width |-> layer.out]]]]

RECURSIVE Sequential(_, _, _, _)
\* nn.Sequential(*layers)(t), from layer k on
Sequential(layers, ver, t, k) ==
    IF k > Len(layers) \/ IsRaised(t) THEN t
    ELSE Sequential(layers, ver, ApplyLayer(layers[k], ver, t), k + 1)

\* x[:, :-1]
DropLastColumn(x) ==
    LET m == IF x.shape[2] = 0 THEN 0 ELSE x.shape[2] - 1
    IN  [shape |-> <<x.shape[1], m>>,
         data  |-> [r \in 1..x.shape[1] |-> SubSeq(x.data[r], 1, m)]]

\* Exercise 4, first option: a start position is put in front, every position
\* is the feature concatenated with its one-hot position, and embedding_layer
\* maps it into the embedding space; shape (n_batch, seq_len + 1, embedding_dim)
EmbeddingFilled(self, ver, x) ==
    LET n == x.shape[1]
        seq_len == x.shape[2]
        tok(r, p) == [num |-> <<IF p = 1 THEN 0 ELSE x.data[r][p - 1]>>
                                 \o OneHot(p, self.data_dim)]
    IN  IF seq_len + 1 > self.data_dim
        THEN Raise("RuntimeError")
        ELSE ApplyLayer(self.embedding_layer, ver,
                 [shape |-> <<n, seq_len + 1, self.data_dim + 1>>,
                  data  |-> [r \in 1..n |-> [p \in 1..(seq_len + 1) |-> tok(r, p)]]])

\* a mutation of embedding: the method is complete whatever the exercises done
Embedding_Complete(self, impl, ver, x) ==
    Ret(EmbeddingFilled(self, ver, x), <<Call("embedding", x.shape)>>)

\* JetGPT.embedding
Embedding(self, impl, ver, x) ==
    IF "embedding" \in impl
    THEN Ret(EmbeddingFilled(self, ver, x), <<Call("embedding", x.shape)>>)
    ELSE Ret(Raise("NotImplementedError"), <<Call("embedding", x.shape)>>)

\* Exercise 2: the boolean tensor of shape (size, size) that is True where
\* position i must not attend to position j (the positions after i)
AttentionMaskFilled(size) ==
    [shape |-> <<size, size>>,
     data  |-> [i \in 1..size |-> [j \in 1..size |-> j > i]]]

\* JetGPT.attention_mask
AttentionMask(self, impl, size) ==
    IF "attention_mask" \in impl
    THEN Ret(AttentionMaskFilled(size), <<Call("attention_mask", size)>>)
    ELSE Ret(Raise("NotImplementedError"), <<Call("attention_mask", size)>>)

RECURSIVE EncoderLayer(_, _, _, _, _)
\* one layer of nn.TransformerEncoder on one sequence, from position p on: the
\* output at p is computed from the input at p (query, residual) and from
\* the inputs at the positions q the mask leaves p to attend to
EncoderLayer(seq, mask, ver, k, p) ==
    IF p > Len(seq) THEN <<>>
    ELSE <<[sym |-> [op |-> "encoder_layer", layer |-> k, ver |-> ver,
                     at |-> seq[p],
                     attends |-> {<<q, seq[q]>> : q \in {j \in 1..Len(seq) : ~mask[p][j]}}],
            width |-> seq[p].width]>>
         \o EncoderLayer(seq, mask, ver, k, p + 1)

RECURSIVE EncoderLayers(_, _, _, _, _)
\* the layers k..num_layers of nn.TransformerEncoder on one sequence
EncoderLayers(seq, mask, ver, k, num_layers) ==
    IF k > num_layers THEN seq
    ELSE EncoderLayers(EncoderLayer(seq, mask, ver, k, 1), mask, ver, k + 1, num_layers)

\* a mutation of the transformer: the mask is accepted and not applied
Transformer_FullAttention(self, ver, src, mask) ==
    LET len == src.shape[2]
    IN  IF src.shape[3] # self.d_model THEN Raise("RuntimeError")
        ELSE IF mask # None /\ mask.shape # <<len, len>> THEN Raise("RuntimeError")
        ELSE [shape |-> src.shape,
              data  |-> [r \in 1..src.shape[1] |->
                            EncoderLayers(src.data[r],
                                          [i \in 1..len |-> [j \in 1..len |-> FALSE]],
                                          ver, 1, self.num_layers)]]

\* self.transformer(src, mask): mask None attends everywhere, a boolean mask
\* must have shape (len, len) and blocks where it is True
Transformer(self, ver, src, mask) ==
    LET len == src.shape[2]
        m == IF mask = None THEN [i \in 1..len |-> [j \in 1..len |-> FALSE]]
             ELSE mask.data
    IN  IF src.shape[3] # self.d_model THEN Raise("RuntimeError")
        ELSE IF mask # None /\ mask.shape # <<len, len>> THEN Raise("RuntimeError")
        ELSE [shape |-> src.shape,
              data  |-> [r \in 1..src.shape[1] |->
                            EncoderLayers(src.data[r], m, ver, 1, self.num_layers)]]

\* a mutation of EvalNetworks: the transformer is called without the mask
EvalNetworks_NoMask(self, impl, ver, embedding) ==
    LET out == Transformer(self, ver, embedding, None)
    IN  IF IsRaised(out) THEN Ret(out, <<Call("eval_networks", embedding.shape), Call("transformer", embedding.shape)>>)
        ELSE Ret(Sequential(self.mlp, ver, out, 1), <<Call("eval_networks", embedding.shape), Call("transformer", embedding.shape), Call("mlp", out.shape)>>)

\* JetGPT.eval_networks
EvalNetworks(self, impl, ver, embedding) ==
    LET mask == AttentionMask(self, impl, embedding.shape[2])
        out == Transformer(self, ver, embedding, mask.val)
    IN  IF IsRaised(mask.val) THEN Ret(mask.val, <<Call("eval_networks", embedding.shape)>> \o mask.calls)
        ELSE IF IsRaised(out)
        THEN Ret(out, <<Call("eval_networks", embedding.shape)>> \o mask.calls \o <<Call("transformer", embedding.shape)>>)
        ELSE Ret(Sequential(self.mlp, ver, out, 1),
                 <<Call("eval_networks", embedding.shape)>> \o mask.calls \o <<Call("transformer", embedding.shape), Call("mlp", out.shape)>>)

(***************************************************************************)
(* Exact arithmetic.  A rational is [n, d] in lowest terms with d > 0.     *)
(* The argument of an exponential is held in units of ln 2, so that        *)
(* exp(a ln 2) = 2^a is a rational.                                         *)
(***************************************************************************)
Abs(a) == IF a < 0 THEN -a ELSE a
Min(a, b) == IF a < b THEN a ELSE b

RECURSIVE GCD(_, _)
GCD(a, b) == IF b = 0 THEN a ELSE GCD(b, a % b)

Rat(n, d) ==
    IF d = 1 THEN [n |-> n, d |-> 1]
    ELSE LET g == GCD(Abs(n), Abs(d))
             sg == IF d < 0 THEN -1 ELSE 1
         IN  [n |-> sg * (n \div g), d |-> sg * (d \div g)]
RatAdd(a, b) ==
    IF a.d = b.d THEN Rat(a.n + b.n, a.d) ELSE Rat(a.n * b.d + b.n * a.d, a.d * b.d)
RatDiv(a, b) == Rat(a.n * b.d, a.d * b.n)

RECURSIVE Pow2(_)
Pow2(k) == IF k = 0 THEN 1 ELSE 2 * Pow2(k - 1)

\* exp of a ln 2
ExpLn2(a) == IF a >= 0 THEN Rat(Pow2(a), 1) ELSE Rat(1, Pow2(-a))

RECURSIVE RatSum(_, _)
\* the sum of the rationals seq[k..]
RatSum(seq, k) == IF k > Len(seq) THEN Rat(0, 1) ELSE RatAdd(seq[k], RatSum(seq, k + 1))

IsNum(v) == "num" \in DOMAIN v
Width(v) == IF IsNum(v) THEN Len(v.num) ELSE v.width

\* v[lo:hi] (positions lo..hi, from 1)
Slice(v, lo, hi) ==
    IF IsNum(v) THEN [num |-> SubSeq(v.num, lo, hi)]
    ELSE [sym |-> [op |-> "slice", lo |-> lo, hi |-> hi, arg |-> v.sym],
          width |-> hi - lo + 1]

\* v.exp()
ExpVec(v) ==
    IF IsNum(v) THEN [num |-> [k \in 1..Len(v.num) |-> ExpLn2(v.num[k])]]
    ELSE [sym |-> [op |-> "exp", arg |-> v.sym], width |-> v.width]

\* softmax(v, dim=-1): exp(v[k]) / sum_j exp(v[j])
SoftmaxVec(v) ==
    IF IsNum(v)
    THEN LET e == ExpVec(v).num
         IN  [num |-> [k \in 1..Len(e) |-> RatDiv(e[k], RatSum(e, 1))]]
    ELSE [sym |-> [op |-> "softmax", arg |-> v.sym], width |-> v.width]

\* Exercise 3: the parameters are split into three chunks along the last
\* dimension (means, log standard deviations, logits of the magnitudes); the
\* exponential gives the standard deviations, the softmax the magnitudes;
\* D.MixtureSameFamily(D.Categorical(weights), D.Normal(means, stds))
GaussianMixtureModelFilled(gmm_params) ==
    LET w == gmm_params.shape[3]
        c == (w + 2) \div 3                     \* torch.chunk: ceil(w / 3) per chunk
        nchunks == IF c = 0 THEN 0 ELSE (w + c - 1) \div c
        part(v, k) == Slice(v, (k - 1) * c + 1, Min(k * c, w))
        gmm(v) == [means   |-> part(v, 1),
                   stds    |-> ExpVec(part(v, 2)),
                   weights |-> SoftmaxVec(part(v, 3))]
    IN  IF nchunks # 3 THEN Raise("ValueError")
        ELSE IF Min(3 * c, w) - 2 * c # c THEN Raise("ValueError")
        ELSE [batch_shape |-> <<gmm_params.shape[1], gmm_params.shape[2]>>,
              data |-> [r \in 1..gmm_params.shape[1] |-> [p \in 1..gmm_params.shape[2] |->
                            gmm(gmm_params.data[r][p])]]]

\* JetGPT.gaussian_mixture_model
GaussianMixtureModel(self, impl, gmm_params) ==
    IF "gaussian_mixture_model" \in impl
    THEN Ret(GaussianMixtureModelFilled(gmm_params), <<Call("gaussian_mixture_model", gmm_params.shape)>>)
    ELSE Ret(Raise("NotImplementedError"), <<Call("gaussian_mixture_model", gmm_params.shape)>>)

\* JetGPT.input_to_gmm
InputToGmm(self, impl, ver, x) ==
    LET embedding == Embedding(self, impl, ver, x)
        gmm_params == EvalNetworks(self, impl, ver, embedding.val)
        dist == GaussianMixtureModel(self, impl, gmm_params.val)
    IN  IF IsRaised(embedding.val)
        THEN Ret(embedding.val, <<Call("input_to_gmm", x.shape)>> \o embedding.calls)
        ELSE IF IsRaised(gmm_params.val)
        THEN Ret(gmm_params.val, <<Call("input_to_gmm", x.shape)>> \o embedding.calls \o gmm_params.calls)
        ELSE Ret(dist.val, <<Call("input_to_gmm", x.shape)>> \o embedding.calls \o gmm_params.calls \o dist.calls)

RECURSIVE SampleFrom(_, _, _, _, _, _)
\* Exercise 5: the features are drawn one after the other, feature i from the
\* mixture at the last position of input_to_gmm(x[:, :i]); draws[r][i] is the
\* number the mixture's sample function returns for feature i of row r
SampleFrom(self, impl, ver, x, draws, calls) ==
    IF x.shape[2] >= self.data_dim THEN Ret(x, calls)
    ELSE LET dist == InputToGmm(self, impl, ver, x)
             i == x.shape[2] + 1
         IN  IF IsRaised(dist.val) THEN Ret(dist.val, calls \o dist.calls)
             ELSE SampleFrom(self, impl, ver,
                     [shape |-> <<x.shape[1], i>>,
                      data  |-> [r \in 1..x.shape[1] |-> Append(x.data[r], draws[r][i])]],
                     draws,
                     calls \o dist.calls
                           \o <<Call("Distribution.sample",
                                     [feature |-> i,
                                      from |-> [r \in 1..x.shape[1] |-> dist.val.data[r][i]]])>>)

\* JetGPT.sample
Sample(self, impl, ver, n_samples, draws) ==
    IF "sample" \in impl
    THEN SampleFrom(self, impl, ver,
                    [shape |-> <<n_samples, 0>>, data |-> [r \in 1..n_samples |-> <<>>]],
                    draws, <<Call("sample", n_samples)>>)
    ELSE Ret(Raise("NotImplementedError"), <<Call("sample", n_samples)>>)

\* Distribution.log_prob(value): value is broadcast against the batch shape
DistLogProb(dist, value) ==
    LET bs == dist.batch_shape
        vs == value.shape
        fits == /\ Len(bs) = Len(vs)
                /\ \A k \in 1..Len(bs) : bs[k] = vs[k] \/ bs[k] = 1 \/ vs[k] = 1
        dim(k) == IF bs[k] = 1 THEN vs[k] ELSE bs[k]
        at(size, i) == IF size = 1 THEN 1 ELSE i
    IN  IF ~fits THEN Raise("ValueError")
        ELSE [shape |-> <<dim(1), dim(2)>>,
              data  |-> [r \in 1..dim(1) |-> [i \in 1..dim(2) |->
                            [op |-> "log_prob",
                             value |-> value.data[at(vs[1], r)][at(vs[2], i)],
                             given |-> dist.data[at(bs[1], r)][at(bs[2], i)]]]]]

\* t.sum(dim=1) for t of shape (n, m): entry r is the sum of the terms of row r
SumDim1(t) ==
    [shape |-> <<t.shape[1]>>,
     data  |-> [r \in 1..t.shape[1] |-> [op |-> "sum", terms |-> t.data[r]]]]

\* a mutation of LogProb: the whole of x is fed to input_to_gmm
LogProb_NoShift(self, impl, ver, x) ==
    LET dist == InputToGmm(self, impl, ver, x)
        lp == DistLogProb(dist.val, x)
    IN  IF IsRaised(dist.val) THEN Ret(dist.val, <<Call("log_prob", x.shape)>> \o dist.calls)
        ELSE IF IsRaised(lp) THEN Ret(lp, <<Call("log_prob", x.shape)>> \o dist.calls)
        ELSE Ret(SumDim1(lp), <<Call("log_prob", x.shape)>> \o dist.calls)

\* a mutation of LogProb: the samples of the model are scored
LogProb_OfSample(self, impl, ver, x) ==
    LET drawn == Sample(self, impl, ver, x.shape[1], x.data)
        dist == InputToGmm(self, impl, ver, DropLastColumn(drawn.val))
        lp == DistLogProb(dist.val, drawn.val)
    IN  IF IsRaised(drawn.val) THEN Ret(drawn.val, <<Call("log_prob", x.shape)>> \o drawn.calls)
        ELSE IF IsRaised(dist.val)
        THEN Ret(dist.val, <<Call("log_prob", x.shape)>> \o drawn.calls \o dist.calls)
        ELSE IF IsRaised(lp)
        THEN Ret(lp, <<Call("log_prob", x.shape)>> \o drawn.calls \o dist.calls)
        ELSE Ret(SumDim1(lp), <<Call("log_prob", x.shape)>> \o drawn.calls \o dist.calls)

\* JetGPT.log_prob
LogProb(self, impl, ver, x) ==
    LET dist == InputToGmm(self, impl, ver, DropLastColumn(x))
        lp == DistLogProb(dist.val, x)
    IN  IF IsRaised(dist.val) THEN Ret(dist.val, <<Call("log_prob", x.shape)>> \o dist.calls)
        ELSE IF IsRaised(lp) THEN Ret(lp, <<Call("log_prob", x.shape)>> \o dist.calls)
        ELSE Ret(SumDim1(lp), <<Call("log_prob", x.shape)>> \o dist.calls)

(***************************************************************************)
(* generative-transformer.ipynb: the training cell                         *)
(***************************************************************************)
\* the training sets of d features
TrainData(d) ==
    UNION { { [shape |-> <<n, d>>, data |-> rows] : rows \in [1..n -> [1..d -> FeatVals]] }
            : n \in 1..MaxEvents }

\* len(train_dataloader)
NumBatches == (gpt_data.shape[1] + BatchSize - 1) \div BatchSize

\* the orders shuffle=True can put n rows in
Orders(n) == {f \in [1..n -> 1..n] : \A a, b \in 1..n : f[a] = f[b] => a = b}

\* batch k (from 0) of the rows of data taken in the given order
BatchOf(data, order, k) ==
    LET lo == k * BatchSize + 1
        hi == Min((k + 1) * BatchSize, data.shape[1])
    IN  [shape |-> <<hi - lo + 1, data.shape[2]>>,
         data  |-> [r \in 1..(hi - lo + 1) |-> data.data[order[lo + r - 1]]]]

\* one pass of the inner loop: loss, zero_grad, backward, step, append
TrainBatch ==
    /\ gpt_status = "training"
    /\ gpt_batch < NumBatches
    /\ \E order \in Orders(gpt_data.shape[1]) :
          LET x == BatchOf(gpt_data, order, gpt_batch)
              ret == LogProb(gpt_self, gpt_impl, gpt_steps, x)
          IN  /\ gpt_x' = x
              /\ gpt_ret' = ret.val
              /\ gpt_calls' = ret.calls
              /\ IF IsRaised(ret.val)
                 THEN /\ gpt_status' = "raised"
                      /\ UNCHANGED <<gpt_batch, gpt_losses, gpt_steps>>
                 ELSE /\ gpt_steps' = gpt_steps + 1
                      /\ gpt_losses' = Append(gpt_losses, [batch |-> gpt_batch, ver |-> gpt_steps])
                      /\ gpt_batch' = gpt_batch + 1
                      /\ UNCHANGED gpt_status
    /\ UNCHANGED <<gpt_self, gpt_impl, gpt_data, gpt_epoch>>
    /\ UNCHANGED <<toyVars, gmmVars, vbVars, bnnVars, genVars, ppVars, ampVars>>

\* the dataloader is exhausted: the epoch's loss is printed, and the next
\* epoch (if any) starts with epoch_losses = []
EndEpoch ==
    /\ gpt_status = "training"
    /\ gpt_batch = NumBatches
    /\ gpt_epoch' = gpt_epoch + 1
    /\ IF gpt_epoch + 1 < Epochs
       THEN /\ gpt_losses' = <<>>
            /\ gpt_batch' = 0
            /\ UNCHANGED gpt_status
       ELSE /\ gpt_status' = "trained"
            /\ UNCHANGED <<gpt_losses, gpt_batch>>
    /\ UNCHANGED <<gpt_self, gpt_impl, gpt_data, gpt_x, gpt_ret, gpt_calls, gpt_steps>>
    /\ UNCHANGED <<toyVars, gmmVars, vbVars, bnnVars, genVars, ppVars, ampVars>>

\* jet_gpt is constructed and the loop is entered, with exercises 2 to 4
\* filled in and sample still to do
GptInit ==
    /\ gpt_self = JetGPT(DataDim, EmbeddingDim, TransformerLayers, MlpLayers,
                         MlpHiddenDim, Gaussians)
    /\ gpt_impl = Exercises234
    /\ gpt_data \in TrainData(DataDim)
    /\ gpt_epoch = 0
    /\ gpt_batch = 0
    /\ gpt_x = None
    /\ gpt_ret = None
    /\ gpt_calls = <<>>
    /\ gpt_losses = <<>>
    /\ gpt_steps = 0
    /\ gpt_status = "training"
    /\ ToyIdle
    /\ GmmIdle
    /\ VbIdle
    /\ BnnIdle
    /\ GenIdle
    /\ PpIdle
    /\ AmpIdle

GptNext == TrainBatch \/ EndEpoch

SpecGPT == GptInit /\ [][GptNext]_vars

\* what a pass of the inner loop does to the position of the loop: the batch
\* is counted, or the cell dies of the exception
BatchProcessed ==
    /\ gpt_status = "training"
    /\ gpt_batch < NumBatches
    /\ \/ gpt_batch' = gpt_batch + 1 /\ gpt_status' = gpt_status
       \/ gpt_batch' = gpt_batch /\ gpt_status' = "raised"

\* the cell is left to run: a pass of the loop that can be made is made
SpecGPTFair ==
    SpecGPT /\ WF_<<gpt_batch, gpt_status>>(BatchProcessed) /\ WF_vars(EndEpoch)

(***************************************************************************)
(* The mixture head on numbers: one position of the output of the final   *)
(* MLP, for a JetGPT of few Gaussians.  The log standard deviations and    *)
(* the logits are held in units of ln 2.                                    *)
(***************************************************************************)
\* Largest argument gaussians.
MaxGauss == 2
\* Values of an output of the final MLP.
ParamVals == {-1, 0, 1}

\* the width of the output of self.mlp
MlpOut(self) == self.mlp[Len(self.mlp)].out

\* jet_gpt.gaussian_mixture_model on the output of the final MLP
MixtureHead ==
    /\ head_dist = None
    /\ head_dist' = GaussianMixtureModel(gpt_self, gpt_impl, head_params).val
    /\ UNCHANGED <<head_gaussians, head_params>>
    /\ UNCHANGED <<toyVars, gptVars, vbVars, bnnVars, genVars, ppVars, ampVars>>

GmmInit ==
    /\ head_gaussians \in 1..MaxGauss
    /\ gpt_self = JetGPT(DataDim, EmbeddingDim, TransformerLayers, MlpLayers,
                         MlpHiddenDim, head_gaussians)
    /\ gpt_impl = Exercises234
    /\ \E v \in [1..MlpOut(gpt_self) -> ParamVals] :
          head_params = [shape |-> <<1, 1, MlpOut(gpt_self)>>,
                        data  |-> <<<<[num |-> v]>>>>]
    /\ head_dist = None
    /\ gpt_data = None
    /\ gpt_epoch = 0
    /\ gpt_batch = 0
    /\ gpt_x = None
    /\ gpt_ret = None
    /\ gpt_calls = <<>>
    /\ gpt_losses = <<>>
    /\ gpt_steps = 0
    /\ gpt_status = "idle"
    /\ ToyIdle
    /\ VbIdle
    /\ BnnIdle
    /\ GenIdle
    /\ PpIdle
    /\ AmpIdle

GmmNext == MixtureHead

SpecGMM == GmmInit /\ [][GmmNext]_vars

\* the mixture of the one position
TheMixture == head_dist.data[1][1]

\* C5: the output head yields 3 * gaussians numbers per position, which
\* gaussian_mixture_model splits into gaussians means, gaussians standard
\* deviations and gaussians weights; every standard deviation is strictly
\* positive, every weight is non-negative, and the weights sum to one.
C5_MixtureParameters ==
    head_dist # None =>
        /\ ~IsRaised(head_dist)
        /\ head_params.shape[3] = 3 * head_gaussians
        /\ Len(TheMixture.means.num) = head_gaussians
        /\ Len(TheMixture.stds.num) = head_gaussians
        /\ Len(TheMixture.weights.num) = head_gaussians
        /\ \A k \in 1..head_gaussians :
              /\ TheMixture.means.num[k] = head_params.data[1][1].num[k]
              /\ TheMixture.stds.num[k].n > 0 /\ TheMixture.stds.num[k].d > 0
              /\ TheMixture.weights.num[k].n >= 0 /\ TheMixture.weights.num[k].d > 0
        /\ RatSum(TheMixture.weights.num, 1) = Rat(1, 1)

\* a mixture of two Gaussians with unequal weights and a standard deviation
\* below one
C5_Witness_TwoGaussians ==
    /\ head_dist # None
    /\ ~IsRaised(head_dist)
    /\ head_gaussians = 2
    /\ TheMixture.weights.num = <<Rat(1, 5), Rat(4, 5)>>
    /\ TheMixture.stds.num[1] = Rat(1, 2)

(***************************************************************************)
(* Claims about JetGPT and its training loop                               *)
(***************************************************************************)
\* the last log_prob call of the loop returned a tensor
LogProbReturned == gpt_x # None /\ ~IsRaised(gpt_ret)

\* the methods the last log_prob call entered
Called == {gpt_calls[k].fn : k \in DOMAIN gpt_calls}

\* the mixture log_prob(x) used for feature i (from 1) of its row r
MixtureAt(ret, r, i) == ret.data[r].terms[i].given

\* log_prob on the single row y, with the weights of the last call
RerunOn(y) ==
    LogProb(gpt_self, gpt_impl, gpt_steps - 1,
            [shape |-> <<1, gpt_self.data_dim>>, data |-> <<y>>]).val

\* row with feature j (from 1) changed to v
Changed(row, j, v) == [k \in 1..Len(row) |-> IF k = j THEN v ELSE row[k]]

\* C1: the mixture parameters of position i depend only on the features
\* before i: changing feature i itself or any later feature j of an input
\* leaves the parameters of position i as they are.
C1_Autoregressive ==
    LogProbReturned =>
        \A r \in 1..gpt_x.shape[1] : \A j \in 1..gpt_self.data_dim :
          \A v \in FeatVals \ {gpt_x.data[r][j]} :
            LET rerun == RerunOn(Changed(gpt_x.data[r], j, v))
            IN  \A i \in 1..j : MixtureAt(rerun, 1, i) = MixtureAt(gpt_ret, r, i)

\* the mixture of the third feature does change with the first feature (it is
\* computed from it), while the mask was handed to the transformer
C1_Witness_DependsOnEarlier ==
    /\ LogProbReturned
    /\ "attention_mask" \in Called
    /\ \E v \in FeatVals :
          /\ v # gpt_x.data[1][1]
          /\ MixtureAt(RerunOn(Changed(gpt_x.data[1], 1, v)), 1, 3) # MixtureAt(gpt_ret, 1, 3)

\* what C6 says of every state the loop reaches
TrainingUndisturbed ==
    /\ gpt_status # "raised"
    /\ "sample" \notin Called
    /\ gpt_x # None =>
          {"embedding", "attention_mask", "gaussian_mixture_model"} \subseteq Called
    /\ gpt_status = "trained" =>
          /\ gpt_epoch = Epochs
          /\ gpt_steps = Epochs * NumBatches

\* C6: with exercises 2 to 4 filled in and sample not, the loop never raises
\* and never enters sample, every log_prob call enters embedding,
\* attention_mask and gaussian_mixture_model, and the loop runs to the end of
\* its last epoch, with one optimizer step per batch.
C6_TrainingCompletes ==
    /\ []((Exercises234 \subseteq gpt_impl /\ "sample" \notin gpt_impl) => TrainingUndisturbed)
    /\ <>(gpt_status = "trained")

\* the loop has finished its last epoch while sample still raises
C6_Witness_Trained ==
    /\ gpt_status = "trained"
    /\ gpt_epoch = Epochs
    /\ "sample" \notin gpt_impl
    /\ IsRaised(Sample(gpt_self, gpt_impl, gpt_steps, 1, <<[i \in 1..DataDim |-> 0]>>).val)

\* the shape the call of fn in the last log_prob call was given
ArgOf(fn) == (CHOOSE c \in {gpt_calls[k] : k \in DOMAIN gpt_calls} : c.fn = fn).arg

\* C7: log_prob(x) for x of shape (n_batch, data_dim) returns shape
\* (n_batch,); embedding is fed the data_dim - 1 first features and returns
\* data_dim positions; entry r sums the log-likelihoods of all data_dim
\* features of row r, feature i under the mixture of position i.
C7_LogProbShape ==
    gpt_x # None =>
        /\ ~IsRaised(gpt_ret)
        /\ gpt_x.shape = <<gpt_x.shape[1], gpt_self.data_dim>>
        /\ gpt_ret.shape = <<gpt_x.shape[1]>>
        /\ ArgOf("embedding") = <<gpt_x.shape[1], gpt_self.data_dim - 1>>
        /\ ArgOf("eval_networks")[2] = gpt_self.data_dim
        /\ \A r \in 1..gpt_x.shape[1] :
              /\ Len(gpt_ret.data[r].terms) = gpt_self.data_dim
              /\ \A i \in 1..gpt_self.data_dim :
                    gpt_ret.data[r].terms[i].value = gpt_x.data[r][i]

\* log_prob returned for a batch of several features
C7_Witness_Returned ==
    /\ LogProbReturned
    /\ gpt_x.shape[1] > 0
    /\ gpt_ret.shape = <<gpt_x.shape[1]>>
    /\ Len(gpt_ret.data[1].terms) = DataDim

(***************************************************************************)
(* bayesian-regression.ipynb: the layer VBLinear and its test cell.  The   *)
(* notebook leaves the parameters, forward, reset_parameters and KL to the *)
(* reader; they are modelled as its comments and text describe them.       *)
(* Numbers are exact rationals; a log variance k stands for k ln 2.        *)
(***************************************************************************)
MaxFeat == 2
MaxRows == 1
StochasticityPasses == 5

MuVals == {0, 1}
NoiseVals == {-1, 1}
XVals == {Rat(1, 4), Rat(1, 2)}
LogSig2Reset == -12

RatMul(a, b) == Rat(a.n * b.n, a.d * b.d)

\* the constant tensors over the values vals, as the value that fills them
Fills(vals) == {Rat(v, 1) : v \in vals}

\* torch.full((rows, cols), v)
Full(rows, cols, v) == [r \in 1..rows |-> [c \in 1..cols |-> v]]

VBLinear_ResampleOff(in_features, out_features) ==
    [in_features |-> in_features, out_features |-> out_features, resample |-> FALSE]

\* VBLinear.__init__, the attributes the notebook sets
VBLinear(in_features, out_features) ==
    [in_features |-> in_features, out_features |-> out_features, resample |-> TRUE]

\* VBLinear.__init__ and reset_parameters, the parameters: mu_w drawn from a
\* normal distribution, logsig2_w around -9, bias zero, and the noise tensor
Parameters(self, mu, noise) ==
    self @@ [bias      |-> [o \in 1..self.out_features |-> Rat(0, 1)],
             mu_w      |-> Full(self.out_features, self.in_features, mu),
             logsig2_w |-> Full(self.out_features, self.in_features, LogSig2Reset),
             random    |-> Full(self.out_features, self.in_features, noise)]

\* the square root of a rational that is a square
RECURSIVE ISqrt(_)
ISqrt(n) ==
    IF n >= 4 /\ n % 4 = 0 THEN 2 * ISqrt(n \div 4) ELSE CHOOSE s \in 0..n : s * s = n
Sqrt(r) == Rat(ISqrt(r.n), ISqrt(r.d))

RECURSIVE WeightRow(_, _, _)
WeightRow(self, o, i) ==
    IF i > self.in_features THEN <<>>
    ELSE <<RatAdd(self.mu_w[o][i],
                  RatMul(Sqrt(ExpLn2(self.logsig2_w[o][i])), self.random[o][i]))>>
         \o WeightRow(self, o, i + 1)

RECURSIVE WeightRows(_, _)
WeightRows(self, o) ==
    IF o > self.out_features THEN <<>>
    ELSE <<WeightRow(self, o, 1)>> \o WeightRows(self, o + 1)

\* w = mu + sigma * r
Weight(self) == WeightRows(self, 1)

RECURSIVE DotOver(_, _, _, _)
\* the sum of u[i] * v[i] over i in lo..hi
DotOver(u, v, lo, hi) ==
    IF lo > hi THEN Rat(0, 1)
    ELSE IF lo = hi THEN RatMul(u[lo], v[lo])
    ELSE LET mid == (lo + hi) \div 2
         IN  RatAdd(DotOver(u, v, lo, mid), DotOver(u, v, mid + 1, hi))
Dot(u, v, i) == DotOver(u, v, i, Len(u))

RECURSIVE LinearRow(_, _, _, _)
\* the entries o.. of one row of the output of F.linear
LinearRow(u, weight, bias, o) ==
    IF o > Len(bias) THEN <<>>
    ELSE <<RatAdd(Dot(u, weight[o], 1), bias[o])>> \o LinearRow(u, weight, bias, o + 1)

RECURSIVE LinearRows(_, _, _, _)
LinearRows(data, weight, bias, r) ==
    IF r > Len(data) THEN <<>>
    ELSE <<LinearRow(data[r], weight, bias, 1)>> \o LinearRows(data, weight, bias, r + 1)

\* F.linear(inpt, weight, bias), weight of shape (out_features, in_features)
FLinear(inpt, weight, bias) ==
    IF IsRaised(inpt) THEN inpt
    ELSE IF Len(inpt.shape) # 2 \/ inpt.shape[2] # Len(weight[1]) THEN Raise("RuntimeError")
    ELSE [shape |-> <<inpt.shape[1], Len(bias)>>,
          data  |-> LinearRows(inpt.data, weight, bias, 1)]

\* VBLinear.forward; noise is what torch.randn_like would return
Forward(self, noise, inpt) ==
    LET drawn == IF self.resample
                 THEN [self EXCEPT !.random =
                          Full(self.out_features, self.in_features, noise)]
                 ELSE self
    IN  [self |-> drawn, drew |-> self.resample,
         out  |-> FLinear(inpt, Weight(drawn), drawn.bias)]

TestOutput_Swapped(tlr0, tlr1, x, r0, r1) ==
    LET f1 == Forward(tlr1, r1, x)
        f0 == Forward(tlr0, r0, f1.out)
    IN  [tlr0 |-> f0.self, tlr1 |-> f1.self, drew |-> f0.drew,
         inner |-> f0.out, output |-> f0.out]

\* output = tlr1(tlr0(x))
TestOutput(tlr0, tlr1, x, r0, r1) ==
    LET f0 == Forward(tlr0, r0, x)
        f1 == Forward(tlr1, r1, f0.out)
    IN  [tlr0 |-> f0.self, tlr1 |-> f1.self, drew |-> f0.drew,
         inner |-> f0.out, output |-> f1.out]

\* the forward pass of the test cell
TestForward ==
    /\ vb_pc = "test"
    /\ \E r0 \in Fills(NoiseVals), r1 \in Fills(NoiseVals) :
          LET t == TestOutput(vb_tlr0, vb_tlr1, vb_x, r0, r1)
          IN  /\ vb_tlr0' = t.tlr0
              /\ vb_tlr1' = t.tlr1
              /\ vb_drew' = t.drew
              /\ vb_last' = t.inner
              /\ vb_output' = t.output
    /\ vb_calls' = vb_calls + 1
    /\ vb_pc' = "loop"
    /\ UNCHANGED <<vb_x, vb_i, vb_kl, toyVars, gptVars, gmmVars, bnnVars, genVars, ppVars, ampVars>>

\* one pass of `for i in range(5): print(tlr0(x)[0][0])`
StochasticityPass ==
    /\ vb_pc = "loop"
    /\ vb_i < StochasticityPasses
    /\ \E r0 \in Fills(NoiseVals) :
          LET f == Forward(vb_tlr0, r0, vb_x)
          IN  /\ vb_tlr0' = f.self
              /\ vb_drew' = f.drew
              /\ vb_last' = f.out
    /\ vb_calls' = vb_calls + 1
    /\ vb_i' = vb_i + 1
    /\ vb_pc' = IF vb_i + 1 = StochasticityPasses THEN "done" ELSE "loop"
    /\ UNCHANGED <<vb_tlr1, vb_x, vb_output, vb_kl, toyVars, gptVars, gmmVars, bnnVars, genVars, ppVars, ampVars>>

\* tlr0.resample = b, between two calls
SetResample ==
    /\ vb_pc \in {"test", "loop"}
    /\ vb_tlr0' = [vb_tlr0 EXCEPT !.resample = ~vb_tlr0.resample]
    /\ UNCHANGED <<vb_tlr1, vb_x, vb_output, vb_i, vb_last, vb_calls, vb_drew, vb_kl,
                   vb_pc, toyVars, gptVars, gmmVars, bnnVars, genVars, ppVars, ampVars>>

VbInit ==
    /\ \E a \in 1..MaxFeat, b \in 1..MaxFeat, c \in 1..MaxFeat :
          /\ \E mu \in Fills(MuVals), noise \in Fills(NoiseVals) :
                vb_tlr0 = Parameters(VBLinear(a, b), mu, noise)
          /\ vb_tlr1 = Parameters(VBLinear(b, c), Rat(1, 1), Rat(1, 1))
          /\ \E v \in XVals :
                vb_x = [shape |-> <<MaxRows, a>>, data |-> Full(MaxRows, a, v)]
    /\ vb_output = None
    /\ vb_i = 0
    /\ vb_last = None
    /\ vb_calls = 0
    /\ vb_drew = FALSE
    /\ vb_kl = None
    /\ vb_pc = "test"
    /\ ToyIdle
    /\ GptIdle
    /\ GmmIdle
    /\ BnnIdle
    /\ GenIdle
    /\ PpIdle
    /\ AmpIdle

VbNext == TestForward \/ StochasticityPass \/ SetResample

SpecVB == VbInit /\ [][VbNext]_vars

WellShaped(t, rows, cols) ==
    /\ ~IsRaised(t)
    /\ t.shape = <<rows, cols>>
    /\ Len(t.data) = rows
    /\ \A r \in 1..rows : Len(t.data[r]) = cols

TrainedMuVals == {-1, 0, 1}
TrainedLogSig2Vals == {-2, 0, 2}
PriorMean == 1

\* the number q + l ln 2 + the sum over e's keys k of e[k] * k.d^2 / (2 exp(k.v)),
\* with q, l, the coefficients e[k] and the k.d, k.v rational
NoExp == [k \in {} |-> Rat(0, 1)]
Num(q, l) == [q |-> q, l |-> l, e |-> NoExp]
AddExp(e1, e2) ==
    LET sum == [k \in DOMAIN e1 \cup DOMAIN e2 |->
                   RatAdd(IF k \in DOMAIN e1 THEN e1[k] ELSE Rat(0, 1),
                          IF k \in DOMAIN e2 THEN e2[k] ELSE Rat(0, 1))]
    IN  [k \in {j \in DOMAIN sum : sum[j].n # 0} |-> sum[k]]
NumAdd(a, b) == [q |-> RatAdd(a.q, b.q), l |-> RatAdd(a.l, b.l), e |-> AddExp(a.e, b.e)]
\* c * a, c rational
NumScale(a, c) ==
    [q |-> RatMul(a.q, c), l |-> RatMul(a.l, c),
     e |-> [k \in {j \in DOMAIN a.e : c.n # 0} |-> RatMul(a.e[k], c)]]
Zero == Num(Rat(0, 1), Rat(0, 1))

\* a tensor that alternates between the values a and b
Alternating(rows, cols, a, b) ==
    [r \in 1..rows |-> [c \in 1..cols |-> IF (r + c) % 2 = 0 THEN a ELSE b]]

\* 0.5 * (mu^2 + sigma^2 - log(sigma^2) - 1) of one weight, logsig2 = k ln 2
KLTerm(mu, k) ==
    Num(RatMul(Rat(1, 2), RatAdd(RatAdd(RatMul(mu, mu), ExpLn2(k)), Rat(-1, 1))),
        Rat(-k, 2))

RECURSIVE KLOver(_, _, _)
\* the sum of KLTerm over the weights lo..hi of the layer, counted row by row
KLOver(self, lo, hi) ==
    IF lo > hi THEN Zero
    ELSE IF lo = hi
    THEN LET o == ((lo - 1) \div self.in_features) + 1
             i == ((lo - 1) % self.in_features) + 1
         IN  KLTerm(self.mu_w[o][i], self.logsig2_w[o][i])
    ELSE LET mid == (lo + hi) \div 2
         IN  NumAdd(KLOver(self, lo, mid), KLOver(self, mid + 1, hi))

\* VBLinear.KL
KL(self) == KLOver(self, 1, self.out_features * self.in_features)

\* the layer after training: its means and log variances have moved
Trained(self, mu, logsig2) ==
    [self EXCEPT !.mu_w = Alternating(self.out_features, self.in_features,
                                      Rat(mu[1], 1), Rat(mu[2], 1)),
                 !.logsig2_w = Alternating(self.out_features, self.in_features,
                                           logsig2[1], logsig2[2])]

CallKL ==
    /\ vb_pc = "kl"
    /\ vb_kl' = KL(vb_tlr0)
    /\ vb_pc' = "done"
    /\ UNCHANGED <<vb_tlr0, vb_tlr1, vb_x, vb_output, vb_i, vb_last, vb_calls, vb_drew,
                   toyVars, gptVars, gmmVars, bnnVars, genVars, ppVars, ampVars>>

KlInit ==
    /\ \E a \in 1..MaxFeat, b \in 1..MaxFeat :
       \E mu \in TrainedMuVals \X TrainedMuVals :
       \E logsig2 \in TrainedLogSig2Vals \X TrainedLogSig2Vals :
          vb_tlr0 = Trained(Parameters(VBLinear(a, b), Rat(0, 1), Rat(1, 1)), mu, logsig2)
    /\ vb_tlr1 = None
    /\ vb_x = None
    /\ vb_output = None
    /\ vb_i = 0
    /\ vb_last = None
    /\ vb_calls = 0
    /\ vb_drew = FALSE
    /\ vb_kl = None
    /\ vb_pc = "kl"
    /\ ToyIdle
    /\ GptIdle
    /\ GmmIdle
    /\ BnnIdle
    /\ GenIdle
    /\ PpIdle
    /\ AmpIdle

KlNext == CallKL

SpecKL == KlInit /\ [][KlNext]_vars

\* the KL divergence of N(mu, sigma^2), log(sigma^2) = k ln 2, from the
\* Gaussian of mean m0 and variance one:
\* 0.5 * (sigma^2 + (mu - m0)^2 - 1 - log(sigma^2))
GaussKL(mu, k, m0) ==
    LET d == RatAdd(mu, Rat(-m0, 1))
    IN  Num(RatMul(Rat(1, 2), RatAdd(RatAdd(ExpLn2(k), RatMul(d, d)), Rat(-1, 1))),
            Rat(-k, 2))

RECURSIVE DivergenceFrom(_, _, _)
DivergenceFrom(self, m0, e) ==
    IF e > self.out_features * self.in_features THEN Zero
    ELSE LET o == ((e - 1) \div self.in_features) + 1
             i == ((e - 1) % self.in_features) + 1
         IN  NumAdd(GaussKL(self.mu_w[o][i], self.logsig2_w[o][i], m0),
                    DivergenceFrom(self, m0, e + 1))

\* every weight distribution of the layer is N(m0, 1)
AllWeightsAre(self, m0) ==
    \A o \in 1..self.out_features, i \in 1..self.in_features :
        self.mu_w[o][i] = Rat(m0, 1) /\ self.logsig2_w[o][i] = 0

\* C4: what VBLinear.KL returns is the KL divergence of the layer's weight
\* distributions from the prior the notebook names, the Gaussian of mean
\* one and variance one, and so is zero when every weight has that
\* distribution.
C4_KLFromNamedPrior ==
    vb_kl # None =>
        /\ vb_kl = DivergenceFrom(vb_tlr0, PriorMean, 1)
        /\ (AllWeightsAre(vb_tlr0, PriorMean) => vb_kl = Zero)

\* what the formula is: the KL divergence from the Gaussian of mean zero and
\* variance one, zero exactly when every weight has that distribution
KLFromStandardNormal ==
    vb_kl # None =>
        /\ vb_kl = DivergenceFrom(vb_tlr0, 0, 1)
        /\ (AllWeightsAre(vb_tlr0, 0) <=> vb_kl = Zero)

(***************************************************************************)
(* bayesian-regression.ipynb: neg_log_gauss, bayes_amp_net and             *)
(* train_epoch.  The network is modelled with its modules in a table objs; *)
(* the lists all_layers and vb_layers and the nn.Sequential hold           *)
(* references into it, as the Python lists hold references to the same     *)
(* module objects.                                                         *)
(***************************************************************************)
MaxHidden == 2
MaxTrain == 3
TrnBatchSize == 2
IptDim == 20

NoiseDraws == {<<1, 1, 1, 1, 1, 1, 1>>, <<1, 1, 1, 1, 1, 1, -1>>}
DataVals == {1, 2}
OptimizerMoves == {<<0, 0>>, <<1, 2>>}
CurrentMuVals == {<<0, 1>>, <<1, 1>>}
CurrentLogSig2Vals == {0, 2}
TargetVals == {0, 1}

IsVB(m) == "mu_w" \in DOMAIN m

RECURSIVE ReLURow(_, _)
ReLURow(u, c) ==
    IF c > Len(u) THEN <<>>
    ELSE <<IF u[c].n < 0 THEN Rat(0, 1) ELSE u[c]>> \o ReLURow(u, c + 1)

RECURSIVE ReLURows(_, _)
ReLURows(data, r) ==
    IF r > Len(data) THEN <<>> ELSE <<ReLURow(data[r], 1)>> \o ReLURows(data, r + 1)

\* nn.ReLU on a tensor
ReLU(t) == IF IsRaised(t) THEN t ELSE [shape |-> t.shape, data |-> ReLURows(t.data, 1)]

\* a VBLinear as the network is handed to train_epoch: its parameters
\* where training has left them
Layer(in_features, out_features, mu, logsig2) ==
    [Parameters(VBLinear(in_features, out_features), Rat(0, 1), Rat(1, 1))
        EXCEPT !.mu_w = Alternating(out_features, in_features,
                                    Rat(mu[1], 1), Rat(mu[2], 1)),
               !.logsig2_w = Full(out_features, in_features, logsig2)]

\* bayes_amp_net.__init__, the architecture: the modules appended to
\* all_layers, the VBLinear ones also to vb_layers
BuildLayers(hdn_dim, out_dim, mu, logsig2) ==
    [objs |-> <<Layer(IptDim, hdn_dim, mu, logsig2), NNReLU,
                Layer(hdn_dim, hdn_dim, mu, logsig2), NNReLU,
                Layer(hdn_dim, hdn_dim, mu, logsig2), NNReLU,
                Layer(hdn_dim, out_dim, mu, logsig2)>>,
     all_layers |-> <<1, 2, 3, 4, 5, 6, 7>>,
     vb_layers  |-> <<1, 3, 5, 7>>]

BayesAmpNet_OnlyVB(training_size, hdn_dim, mu, logsig2) ==
    LET b == BuildLayers(hdn_dim, 2, mu, logsig2)
    IN  [training_size |-> training_size, objs |-> b.objs,
         vb_layers |-> b.vb_layers, all_layers |-> b.all_layers,
         model |-> b.vb_layers]

\* bayes_amp_net.__init__
BayesAmpNet(training_size, hdn_dim, mu, logsig2) ==
    LET b == BuildLayers(hdn_dim, 2, mu, logsig2)
    IN  [training_size |-> training_size, objs |-> b.objs,
         vb_layers |-> b.vb_layers, all_layers |-> b.all_layers,
         model |-> b.all_layers]

\* the noise the k-th module draws in a forward pass of noise s
NoiseOf(s, k) == Rat(s[k], 1)

RECURSIVE RunSequential(_, _, _, _, _)
\* nn.Sequential: the modules model[k..] applied to t
RunSequential(objs, model, k, s, t) ==
    IF k > Len(model) THEN [objs |-> objs, out |-> t]
    ELSE LET m == objs[model[k]]
         IN  IF IsVB(m)
             THEN LET f == Forward(m, NoiseOf(s, k), t)
                  IN  RunSequential([objs EXCEPT ![model[k]] = f.self], model,
                                    k + 1, s, f.out)
             ELSE RunSequential(objs, model, k + 1, s, ReLU(t))

\* bayes_amp_net.forward: self.model(x)
NetForward(self, s, x) ==
    LET f == RunSequential(self.objs, self.model, 1, s, x)
    IN  [self |-> [self EXCEPT !.objs = f.objs], out |-> f.out]

RECURSIVE KLSum(_, _)
KLSum(self, j) ==
    IF j > Len(self.vb_layers) THEN Zero
    ELSE NumAdd(KL(self.objs[self.vb_layers[j]]), KLSum(self, j + 1))

\* bayes_amp_net.KL
NetKL(self) == NumScale(KLSum(self, 1), Rat(1, self.training_size))

\* (mu - y)^2 / (2 sigma^2) + 0.5 * log(sigma^2) of one row, log(sigma^2) = v
NLLRow(mu, v, y) ==
    LET d == RatAdd(mu, Rat(-y.n, y.d))
    IN  [q |-> RatMul(Rat(1, 2), v), l |-> Rat(0, 1),
         e |-> IF d.n = 0 THEN NoExp ELSE ([d |-> d, v |-> v] :> Rat(1, 1))]

RECURSIVE NLLSum(_, _, _)
NLLSum(outputs, targets, r) ==
    IF r > outputs.shape[1] THEN Zero
    ELSE NumAdd(NLLRow(outputs.data[r][1], outputs.data[r][2], targets.data[r]),
                NLLSum(outputs, targets, r + 1))

\* neg_log_gauss: outputs[:, 0] the means, outputs[:, 1] the log variances,
\* the mean over the rows
NegLogGauss(outputs, targets) ==
    IF IsRaised(outputs) THEN outputs
    ELSE IF outputs.shape[2] < 2 THEN Raise("IndexError")
    ELSE NumScale(NLLSum(outputs, targets, 1), Rat(1, outputs.shape[1]))

\* optimizer.step(): the means and log variances of the VBLinear layers move
OptimizerStep(self, mv) ==
    [self EXCEPT !.objs = [k \in 1..Len(self.objs) |->
        LET m == self.objs[k]
        IN  IF ~IsVB(m) THEN m
            ELSE [m EXCEPT
                    !.mu_w = [o \in 1..m.out_features |-> [i \in 1..m.in_features |->
                                 RatAdd(m.mu_w[o][i], Rat(mv[1], 1))]],
                    !.logsig2_w = [o \in 1..m.out_features |-> [i \in 1..m.in_features |->
                                 m.logsig2_w[o][i] + mv[2]]]]]]

TrainEpochReturn_NoDivision(loss_tot, batches) == loss_tot

\* return loss_tot / len(dataloader)
TrainEpochReturn(loss_tot, batches) == NumScale(loss_tot, Rat(1, batches))

\* the batches a DataLoader of batch size TrnBatchSize makes of trn_len rows
Batches(trn_len, xv, yv) ==
    LET nb == (trn_len + TrnBatchSize - 1) \div TrnBatchSize
    IN  [b \in 1..nb |->
           LET first == (b - 1) * TrnBatchSize
               n == Min(TrnBatchSize, trn_len - first)
           IN  [X |-> [shape |-> <<n, IptDim>>,
                       data  |-> [r \in 1..n |-> [c \in 1..IptDim |->
                                    IF (first + r + c) % 2 = 0 THEN Rat(xv, 1) ELSE Rat(-1, 1)]]],
                y |-> [shape |-> <<n>>,
                       data  |-> [r \in 1..n |-> Rat(yv + ((first + r) % 2), 1)]]]]

\* one pass of the loop of train_epoch
TrainStep ==
    /\ bnn_pc = "loop"
    /\ bnn_batch < Len(bnn_data)
    /\ \E s \in NoiseDraws, mv \in OptimizerMoves :
          LET b == bnn_data[bnn_batch + 1]
              f == NetForward(bnn_model, s, b.X)
              nl == NegLogGauss(f.out, b.y)
              kl == NetKL(f.self)
          IN  IF IsRaised(nl)
              THEN /\ bnn_model' = f.self
                   /\ bnn_hist' = Append(bnn_hist, [pred |-> f.out, nll |-> nl, kl |-> kl,
                                                    loss |-> nl, net |-> f.self])
                   /\ bnn_pc' = "raised"
                   /\ UNCHANGED <<bnn_batch, bnn_loss_tot>>
              ELSE /\ bnn_model' = OptimizerStep(f.self, mv)
                   /\ bnn_hist' = Append(bnn_hist, [pred |-> f.out, nll |-> nl, kl |-> kl,
                                                    loss |-> NumAdd(nl, kl), net |-> f.self])
                   /\ bnn_loss_tot' = NumAdd(bnn_loss_tot, NumAdd(nl, kl))
                   /\ bnn_batch' = bnn_batch + 1
                   /\ UNCHANGED bnn_pc
    /\ UNCHANGED <<bnn_data, bnn_ret, toyVars, gptVars, gmmVars, vbVars, genVars, ppVars, ampVars>>

\* the end of train_epoch
TrainReturn ==
    /\ bnn_pc = "loop"
    /\ bnn_batch = Len(bnn_data)
    /\ bnn_ret' = TrainEpochReturn(bnn_loss_tot, Len(bnn_data))
    /\ bnn_pc' = "done"
    /\ UNCHANGED <<bnn_model, bnn_data, bnn_batch, bnn_loss_tot, bnn_hist,
                   toyVars, gptVars, gmmVars, vbVars, genVars, ppVars, ampVars>>

BnnInit ==
    /\ \E trn_len \in 1..MaxTrain :
          /\ \E hdn_dim \in 1..MaxHidden, mu \in CurrentMuVals,
                logsig2 \in CurrentLogSig2Vals :
                bnn_model = BayesAmpNet(trn_len, hdn_dim, mu, logsig2)
          /\ \E xv \in DataVals, yv \in TargetVals :
                bnn_data = Batches(trn_len, xv, yv)
    /\ bnn_batch = 0
    /\ bnn_loss_tot = Zero
    /\ bnn_hist = <<>>
    /\ bnn_ret = None
    /\ bnn_pc = "loop"
    /\ ToyIdle
    /\ GptIdle
    /\ GmmIdle
    /\ VbIdle
    /\ GenIdle
    /\ PpIdle
    /\ AmpIdle

BnnNext == TrainStep \/ TrainReturn

SpecBNN == BnnInit /\ [][BnnNext]_vars

RECURSIVE LayerKLs(_, _)
\* the sum of KL() over the VBLinear modules among objs[k..]
LayerKLs(objs, k) ==
    IF k > Len(objs) THEN Zero
    ELSE NumAdd(IF IsVB(objs[k]) THEN KL(objs[k]) ELSE Zero, LayerKLs(objs, k + 1))

RECURSIVE Losses(_, _)
Losses(hist, b) ==
    IF b > Len(hist) THEN Zero ELSE NumAdd(hist[b].loss, Losses(hist, b + 1))

Module(k) == bnn_model.objs[bnn_model.all_layers[k]]

MaxSamples == 2
\* The features apply_preprocessing stacks, and so the length of train_mean
\* and train_std; the components invert_preprocessing stacks.
PreprocDim == 4
EventDim == 8

AllExercises == Exercises234 \cup {"sample"}

\* sample * train_std + train_mean: numpy broadcasts the columns of sample
\* against the PreprocDim entries of train_std and train_mean
UnNormalize(sample) ==
    LET d == sample.shape[2]
    IN  IF d # PreprocDim /\ d # 1 THEN Raise("ValueError")
        ELSE [shape |-> <<sample.shape[1], PreprocDim>>,
              data  |-> [r \in 1..sample.shape[1] |-> [k \in 1..PreprocDim |->
                            [op |-> "unnormalize", col |-> k,
                             arg |-> sample.data[r][IF d = 1 THEN 1 ELSE k]]]]]

\* invert_preprocessing on features that are not numbers yet: which of the
\* columns data_red[..., 0] to data_red[..., 3] each stacked component is
\* computed from
InvertPreprocessingOf(data_red) ==
    IF IsRaised(data_red) THEN data_red
    ELSE IF data_red.shape[2] < PreprocDim THEN Raise("IndexError")
    ELSE LET uses == <<{1, 2, 4}, {1, 4}, {1, 4}, {1, 2}, {1, 3, 4}, {1, 4}, {1, 4}, {1, 3}>>
         IN  [shape |-> <<data_red.shape[1], EventDim>>,
              data  |-> [r \in 1..data_red.shape[1] |-> [c \in 1..EventDim |->
                            [op |-> "invert_preprocessing", component |-> c,
                             args |-> [k \in uses[c] |-> data_red.data[r][k]]]]]]

\* what the sample functions of the mixtures can return for n rows: row r
\* is base with r added to every entry, within the feature values
DrawVals(n) ==
    { [r \in 1..n |-> [i \in 1..DataDim |-> (base[i] + r) % 2]] :
        base \in [1..DataDim -> FeatVals] }

\* the generation cell, run once the training loop has finished
GenerationCell ==
    /\ gpt_status = "trained"
    /\ gen_sample = None
    /\ \E n \in 1..MaxSamples : \E draws \in DrawVals(n) :
          LET ret == Sample(gpt_self, gpt_impl, gpt_steps, n, draws)
          IN  /\ gen_n' = n
              /\ gen_calls' = ret.calls
              /\ gen_sample' = ret.val
              /\ gen_pp' = IF IsRaised(ret.val) THEN ret.val
                           ELSE InvertPreprocessingOf(UnNormalize(ret.val))
    /\ UNCHANGED <<gptVars, toyVars, gmmVars, vbVars, bnnVars, ppVars, ampVars>>

\* jet_gpt is constructed with every exercise filled in, sample included
GenInit ==
    /\ gpt_self = JetGPT(DataDim, EmbeddingDim, TransformerLayers, MlpLayers,
                         MlpHiddenDim, Gaussians)
    /\ gpt_impl = AllExercises
    /\ gpt_data \in {t \in TrainData(DataDim) : t.shape[1] = 1}
    /\ gpt_epoch = 0
    /\ gpt_batch = 0
    /\ gpt_x = None
    /\ gpt_ret = None
    /\ gpt_calls = <<>>
    /\ gpt_losses = <<>>
    /\ gpt_steps = 0
    /\ gpt_status = "training"
    /\ gen_n = 0
    /\ gen_calls = <<>>
    /\ gen_sample = None
    /\ gen_pp = None
    /\ ToyIdle
    /\ GmmIdle
    /\ VbIdle
    /\ BnnIdle
    /\ PpIdle
    /\ AmpIdle

GenNext == TrainBatch \/ EndEpoch \/ GenerationCell

SpecGen == GenInit /\ [][GenNext]_vars

Sampled == gen_sample # None /\ ~IsRaised(gen_sample)

\* the mixture of position i that input_to_gmm computes from the features
\* given, one row, with the weights the sample was drawn with
MixtureGiven(features, i) ==
    InputToGmm(gpt_self, gpt_impl, gpt_steps,
               [shape |-> <<1, Len(features)>>, data |-> <<features>>]).val.data[1][i]

\* the mixture the sample function was called on for feature i of row r
DrawnFrom(r, i) ==
    (CHOOSE c \in {gen_calls[k] : k \in DOMAIN gen_calls} :
        c.fn = "Distribution.sample" /\ c.arg.feature = i).arg.from[r]

Unit == 10000
\* pi, pi / 2 and ln 2 in units of 1 / Unit
Pi == 31416
HalfPi == 15708
Ln2 == 6931
\* what numpy returns for arctanh(1)
Infinity == 1000000000
\* terms the series are carried to
SeriesTerms == 30

Sign(a) == IF a < 0 THEN -1 ELSE 1

\* a * b, rounded to the unit
FMul(a, b) ==
    LET p == Abs(a)
        q == Abs(b)
    IN  Sign(a) * Sign(b) * ((p \div Unit) * q + ((p % Unit) * q + (Unit \div 2)) \div Unit)

\* a / b, rounded to the unit
FDiv(a, b) == Sign(a) * Sign(b) * ((Abs(a) * Unit + (Abs(b) \div 2)) \div Abs(b))

RECURSIVE FloorSqrt(_)
FloorSqrt(n) ==
    IF n < 4 THEN (IF n = 0 THEN 0 ELSE 1)
    ELSE LET r == 2 * FloorSqrt(n \div 4)
         IN  IF (r + 1) * (r + 1) <= n THEN r + 1 ELSE r

\* np.sqrt
FSqrt(a) == FloorSqrt(a * Unit)

\* t / n for a count n, rounded to the unit
Over(t, n) == Sign(t) * ((Abs(t) + (n \div 2)) \div n)

RECURSIVE FactorialSeries(_, _, _, _, _)
\* t + t x^step / ((n+1)..(n+step)) + ..., the signs alternating if alt = -1:
\* the series of exp (step 1) and of sin and cos (step 2)
FactorialSeries(x, t, n, step, alt) ==
    IF t = 0 \/ n > SeriesTerms THEN 0
    ELSE LET t1 == Over(FMul(t, x), n + 1)
             t2 == IF step = 1 THEN t1 ELSE Over(FMul(t1, x), n + 2)
         IN  t + FactorialSeries(x, alt * t2, n + step, step, alt)

RECURSIVE OddSeries(_, _, _, _)
\* p / n + alt p x^2 / (n + 2) + ...: the series of arctanh (alt = 1) and of
\* arctan (alt = -1), p being x^n
OddSeries(x, p, n, alt) ==
    IF p = 0 \/ n > SeriesTerms THEN 0
    ELSE Over(p, n) + OddSeries(x, alt * FMul(FMul(p, x), x), n + 2, alt)

\* np.exp, by the series of exp(|x|)
FExp(x) ==
    LET e == FactorialSeries(Abs(x), Unit, 0, 1, 1)
    IN  IF x < 0 THEN FDiv(Unit, e) ELSE e

\* np.sinh
FSinh(x) == (FExp(x) - FExp(-x)) \div 2

RECURSIVE FLn(_)
\* np.log of y > 0: halved or doubled into [1, 2), then
\* ln(m) = 2 arctanh((m - 1) / (m + 1))
FLn(y) ==
    IF y >= 2 * Unit THEN Ln2 + FLn(Over(y, 2))
    ELSE IF y < Unit THEN FLn(2 * y) - Ln2
    ELSE LET z == FDiv(y - Unit, y + Unit)
         IN  2 * OddSeries(z, z, 1, 1)

\* np.arctanh: (1/2) ln((1 + u) / (1 - u)), infinite at 1 and -1
FArctanh(u) ==
    IF u >= Unit THEN Infinity
    ELSE IF u <= -Unit THEN -Infinity
    ELSE Sign(u) * Over(FLn(FDiv(Unit + Abs(u), Unit - Abs(u))), 2)

\* y / (1 + sqrt(1 + y^2)), the tangent of half the angle
HalfTangent(y) == FDiv(y, Unit + FSqrt(Unit + FMul(y, y)))

\* np.arctan: of 1 / y above 1, the angle halved twice, then the series
FArctan(y) ==
    LET a == Abs(y)
        small(b) == LET h == HalfTangent(HalfTangent(b))
                    IN  4 * OddSeries(h, h, 1, -1)
    IN  Sign(y) * (IF a >= Infinity THEN HalfPi
                   ELSE IF a > Unit THEN HalfPi - small(FDiv(Unit, a))
                   ELSE small(a))

\* np.arctan2(y, x)
FArctan2(y, x) ==
    IF x > 0 THEN FArctan(FDiv(y, x))
    ELSE IF x < 0 THEN (IF y >= 0 THEN FArctan(FDiv(y, x)) + Pi ELSE FArctan(FDiv(y, x)) - Pi)
    ELSE IF y > 0 THEN HalfPi
    ELSE IF y < 0 THEN -HalfPi
    ELSE 0

RECURSIVE Wrapped(_)
\* the angle brought into [-pi, pi] by whole turns
Wrapped(a) ==
    IF a > Pi THEN Wrapped(a - 2 * Pi)
    ELSE IF a < -Pi THEN Wrapped(a + 2 * Pi)
    ELSE a

\* np.sin and np.cos
FSin(a) == LET w == Wrapped(a) IN FactorialSeries(w, w, 1, 2, -1)
FCos(a) == FactorialSeries(Wrapped(a), Unit, 0, 2, -1)

Square(a) == FMul(a, a)

\* apply_preprocessing(data_full), data_full of shape (n, 8)
ApplyPreprocessing(data_full) ==
    [shape |-> <<data_full.shape[1], PreprocDim>>,
     data  |-> [k \in 1..data_full.shape[1] |->
        LET d == data_full.data[k]
            pt == FSqrt(Square(d[2]) + Square(d[3]))
            eta1 == FArctanh(FDiv(d[4], FSqrt(Square(d[2]) + Square(d[3]) + Square(d[4]))))
            eta2 == FArctanh(FDiv(d[8], FSqrt(Square(d[6]) + Square(d[7]) + Square(d[8]))))
            phi1 == FArctanh(FDiv(FArctan2(d[3], d[2]), Pi))
        IN  <<pt, eta1, eta2, phi1>>]]

\* invert_preprocessing(data_red), data_red of shape (n, 4)
InvertPreprocessing(data_red) ==
    [shape |-> <<data_red.shape[1], EventDim>>,
     data  |-> [k \in 1..data_red.shape[1] |->
        LET pt == data_red.data[k][1]
            eta1 == data_red.data[k][2]
            eta2 == data_red.data[k][3]
            phi1 == FMul(FArctan(data_red.data[k][4]), Pi)
            px1 == FMul(pt, FCos(phi1))
            py1 == FMul(pt, FSin(phi1))
            pz1 == FMul(pt, FSinh(eta1))
            e1 == FSqrt(Square(px1) + Square(py1) + Square(pz1))
            px2 == -px1
            py2 == -py1
            pz2 == FMul(pt, FSinh(eta2))
            e2 == FSqrt(Square(px2) + Square(py2) + Square(pz2))
        IN  <<e1, px1, py1, pz1, e2, px2, py2, pz2>>]]

\* Reduced features (pt, eta1, eta2, phi1) and momentum components the round
\* trips are started from, in units of 1 / Unit.
PtVals == {Unit, 2 * Unit}
EtaVals == {-Unit, 0, Unit \div 2}
PhiVals == {-Unit, -(Unit \div 2), 0, Unit \div 2, Unit}
MomentumVals == {-Unit, 0, Unit}

ReducedVals ==
    { [shape |-> <<1, PreprocDim>>, data |-> <<r>>] :
        r \in PtVals \X EtaVals \X EtaVals \X PhiVals }

\* events of two massless muons back to back in the transverse plane
EventVals ==
    { [shape |-> <<1, EventDim>>,
       data  |-> << <<FSqrt(Square(p[1]) + Square(p[2]) + Square(p[3])), p[1], p[2], p[3],
                      FSqrt(Square(p[1]) + Square(p[2]) + Square(p[4])), -p[1], -p[2], p[4]>> >>] :
        p \in {q \in MomentumVals \X MomentumVals \X MomentumVals \X MomentumVals :
                  q[1] # 0 \/ q[2] # 0} }

\* apply_preprocessing(invert_preprocessing(r))
RoundTripReduced ==
    /\ pp_kind = "reduced"
    /\ pp_out = None
    /\ pp_mid' = InvertPreprocessing(pp_in)
    /\ pp_out' = ApplyPreprocessing(InvertPreprocessing(pp_in))
    /\ UNCHANGED <<pp_kind, pp_in>>
    /\ UNCHANGED <<toyVars, gptVars, gmmVars, vbVars, bnnVars, genVars, ampVars>>

\* invert_preprocessing(apply_preprocessing(d))
RoundTripEvent ==
    /\ pp_kind = "event"
    /\ pp_out = None
    /\ pp_mid' = ApplyPreprocessing(pp_in)
    /\ pp_out' = InvertPreprocessing(ApplyPreprocessing(pp_in))
    /\ UNCHANGED <<pp_kind, pp_in>>
    /\ UNCHANGED <<toyVars, gptVars, gmmVars, vbVars, bnnVars, genVars, ampVars>>

PpInit ==
    /\ \/ pp_kind = "reduced" /\ pp_in \in ReducedVals
       \/ pp_kind = "event" /\ pp_in \in EventVals
    /\ pp_mid = None
    /\ pp_out = None
    /\ ToyIdle
    /\ GptIdle
    /\ GmmIdle
    /\ VbIdle
    /\ BnnIdle
    /\ GenIdle
    /\ AmpIdle

PpNext == RoundTripReduced \/ RoundTripEvent

SpecPP == PpInit /\ [][PpNext]_vars

\* Two floating-point results count as the same number if they differ by no
\* more than this, in units of 1 / Unit.
Tolerance == 100

\* the arrays agree entry by entry
Close(a, b) ==
    /\ a.shape = b.shape
    /\ \A k \in 1..a.shape[1] : \A c \in 1..a.shape[2] :
          Abs(a.data[k][c] - b.data[k][c]) <= Tolerance

\* C12: the two functions undo each other: apply_preprocessing of
\* invert_preprocessing(r) is r, and invert_preprocessing of
\* apply_preprocessing(d) is d for an event of back-to-back massless muons,
\* the azimuth included.
C12_RoundTrip == pp_out # None => Close(pp_out, pp_in)

(***************************************************************************)
(* bayesian-regression.ipynb: the preprocessing of the amplitude data      *)
(***************************************************************************)
\* Largest number of events in a loaded array (the files hold 30000 each).
MaxAmpEvents == 4
\* The particles of an event and the components of a four-momentum: the
\* arrays have shape (N, 5, 4).
Particles == 5
Components == 4

Sets == {"trn", "val", "tst"}

\* an array of n events as np.load returns it; the entries are named by
\* their event, particle and component, in C order
Loaded(n) ==
    [shape |-> <<n, Particles, Components>>,
     flat  |-> [k \in 1..(n * Particles * Components) |->
                  [event     |-> ((k - 1) \div (Particles * Components)) + 1,
                   particle  |-> (((k - 1) \div Components) % Particles) + 1,
                   component |-> ((k - 1) % Components) + 1,
                   scaled    |-> FALSE]]]

\* np.reshape(a, (rows, -1)): the other dimension is what the size of a
\* leaves for it, and the entries keep their order
Reshape(a, rows) ==
    LET size == Len(a.flat)
    IN  IF rows = 0 \/ size % rows # 0 THEN Raise("ValueError")
        ELSE [shape |-> <<rows, size \div rows>>,
              data  |-> [r \in 1..rows |-> [c \in 1..(size \div rows) |->
                            a.flat[(r - 1) * (size \div rows) + c]]]]

\* a / gpt, entry by entry
Scaled(a) ==
    [shape |-> a.shape,
     data  |-> [r \in 1..a.shape[1] |-> [c \in 1..a.shape[2] |->
                   [a.data[r][c] EXCEPT !.scaled = TRUE]]]]

\* the preprocessing cell: nev is read off trn_dat, the three arrays are
\* reshaped with it one after the other, then divided by gpt; the first
\* reshape that raises ends the cell
PreprocessAmplitudes ==
    /\ amp_pc = "loaded"
    /\ LET nev == amp_dat["trn"].shape[1]
           trn_datf == Reshape(amp_dat["trn"], nev)
           val_datf == Reshape(amp_dat["val"], nev)
           tst_datf == Reshape(amp_dat["tst"], nev)
       IN  /\ amp_nev' = nev
           /\ IF IsRaised(trn_datf)
              THEN /\ amp_datf' = [trn |-> None, val |-> None, tst |-> None]
                   /\ amp_pc' = "raised"
              ELSE IF IsRaised(val_datf)
              THEN /\ amp_datf' = [trn |-> trn_datf, val |-> None, tst |-> None]
                   /\ amp_pc' = "raised"
              ELSE IF IsRaised(tst_datf)
              THEN /\ amp_datf' = [trn |-> trn_datf, val |-> val_datf, tst |-> None]
                   /\ amp_pc' = "raised"
              ELSE /\ amp_datf' = [trn |-> Scaled(trn_datf), val |-> Scaled(val_datf),
                                   tst |-> Scaled(tst_datf)]
                   /\ amp_pc' = "done"
    /\ UNCHANGED amp_dat
    /\ UNCHANGED <<toyVars, gptVars, gmmVars, vbVars, bnnVars, genVars, ppVars>>

\* the three files are loaded
AmpInit ==
    /\ amp_dat \in { [trn |-> Loaded(n[1]), val |-> Loaded(n[2]), tst |-> Loaded(n[3])] :
                        n \in (1..MaxAmpEvents) \X (1..MaxAmpEvents) \X (1..MaxAmpEvents) }
    /\ amp_nev = 0
    /\ amp_datf = [trn |-> None, val |-> None, tst |-> None]
    /\ amp_pc = "loaded"
    /\ ToyIdle
    /\ GptIdle
    /\ GmmIdle
    /\ VbIdle
    /\ BnnIdle
    /\ GenIdle
    /\ PpIdle

AmpNext == PreprocessAmplitudes

SpecAmp == AmpInit /\ [][AmpNext]_vars

\* row r of the flattened array holds the entries of event r, all of them
OneRowPerEvent(datf, dat) ==
    /\ datf # None
    /\ datf.shape = <<dat.shape[1], Particles * Components>>
    /\ \A r \in 1..dat.shape[1] : \A c \in 1..(Particles * Components) :
          datf.data[r][c].event = r

\* C13: whatever arrays were loaded, once the cell has run each of the three
\* flattened arrays has one row of 20 features for each event of its own
\* array.
C13_OneRowPerEvent ==
    amp_pc # "loaded" =>
        /\ amp_pc = "done"
        /\ \A s \in Sets : OneRowPerEvent(amp_datf[s], amp_dat[s])

(***************************************************************************)
(* generative-transformer.ipynb as shipped: the training cell with no      *)
(* exercise filled in                                                      *)
(***************************************************************************)
\* Largest number of events in the training data of the shipped notebook.
MaxShippedEvents == 2

\* train_data_normalized
ShippedData(d) ==
    UNION { { [shape |-> <<n, d>>, data |-> rows] : rows \in [1..n -> [1..d -> FeatVals]] }
            : n \in 1..MaxShippedEvents }

\* jet_gpt is constructed and the loop is entered; every exercise method
\* still raises NotImplementedError
ShippedInit ==
    /\ gpt_self = JetGPT(DataDim, EmbeddingDim, TransformerLayers, MlpLayers,
                         MlpHiddenDim, Gaussians)
    /\ gpt_impl = {}
    /\ gpt_data \in ShippedData(DataDim)
    /\ gpt_epoch = 0
    /\ gpt_batch = 0
    /\ gpt_x = None
    /\ gpt_ret = None
    /\ gpt_calls = <<>>
    /\ gpt_losses = <<>>
    /\ gpt_steps = 0
    /\ gpt_status = "training"
    /\ ToyIdle
    /\ GmmIdle
    /\ VbIdle
    /\ BnnIdle
    /\ GenIdle
    /\ PpIdle
    /\ AmpIdle

\* the loop never gets to the end of its dataloader
ShippedNext == TrainBatch

SpecShipped == ShippedInit /\ [][ShippedNext]_vars

\* C14: with no exercise filled in, the first log_prob call of the loop
\* raises NotImplementedError, raised by embedding: attention_mask, the
\* transformer and gaussian_mixture_model are not entered; the loop is over
\* in its first batch, no optimizer step was made, the model is as it was
\* constructed and epoch_losses is empty.
C14_AbortsInEmbedding ==
    gpt_x # None =>
        /\ gpt_ret = Raise("NotImplementedError")
        /\ gpt_calls[Len(gpt_calls)].fn = "embedding"
        /\ Called \cap {"attention_mask", "eval_networks", "transformer", "mlp",
                        "gaussian_mixture_model"} = {}
        /\ gpt_status = "raised"
        /\ gpt_epoch = 0
        /\ gpt_batch = 0
        /\ gpt_steps = 0
        /\ gpt_self = JetGPT(DataDim, EmbeddingDim, TransformerLayers, MlpLayers,
                             MlpHiddenDim, Gaussians)
        /\ gpt_losses = <<>>
        /\ ~ENABLED ShippedNext

\* the first batch, of two events, was handed to log_prob, which got as far
\* as embedding
C14_Witness_FirstBatchRaised ==
    /\ gpt_status = "raised"
    /\ gpt_x # None
    /\ gpt_x.shape[1] >= 2
    /\ gpt_calls = <<Call("log_prob", gpt_x.shape),
                     Call("input_to_gmm", DropLastColumn(gpt_x).shape),
                     Call("embedding", DropLastColumn(gpt_x).shape)>>

====
